---- MODULE Spec2Model ----
(***************************************************************************)
(* A model of the MJPEG relay: StreamProxy (src/stream_proxy.py), the      *)
(* per-source reader thread and its bounded frame queues, and StreamMixer  *)
(* (src/stream_mixer.py), the crossfade loop and its output queue.         *)
(*                                                                         *)
(* Time is counted in whole seconds since StreamMixer.__init__ ran and is   *)
(* read where the code reads it: at the top of each pass of the mixing     *)
(* loop.  Any number of passes may fall within one second (the throttle of *)
(* lines 71-79 only spaces them at least 1/30 s apart) and at most MaxStep *)
(* seconds lie between two passes.  The code reads time.time() as a float; *)
(* for the whole-second readings modelled here the float arithmetic of     *)
(* lines 108-119 is exact up to the final division.                        *)
(* Pixel arithmetic is kept symbolic: a blend is the pair of weights and   *)
(* the two frames it was computed from, weights being numerators over      *)
(* Den = TransitionDuration^3, which makes the cubic easing exact.         *)
(***************************************************************************)
EXTENDS Integers, Sequences, FiniteSets, TLC

\* ------------------------------------------------------------- bounds
\* the clock is exact below MaxTime seconds; from there on its origin slides
MaxTime == 62
\* the longest time, in seconds, between two passes of the mixing loop
MaxStep == 1
\* frames of one source carry the numbers 1..MaxSeq; later ones repeat MaxSeq
MaxSeq == 2
\* the camera of SpecReader sends at most MaxBytes bytes in all
MaxBytes == 5
\* and its reader opens at most MaxConns connections
MaxConns == 2
\* HTTP requests the server handles at the same time
MaxRequests == 2

\* -------------------------------------------------- program constants
TransitionInterval == 30
TransitionDuration == 3
FrameQueueMax == 10
SourceQueueMax == 2
JpegQuality == 85
MaxRetries == 3
ChunkSize == 4096
\* the two bytes of the JPEG end marker, and a byte that is neither
FF == 255
D9 == 217
Bytes == {0, FF, D9}

Sources == {1, 2}
\* the threads of the server that handle requests
Requests == 1..MaxRequests

\* ------------------------------------------------------------- values
\* Python's None
None == [kind |-> "none"]
\* np.zeros_like(frame): an all-zero image
Black == [kind |-> "black"]
\* the bytes of the n-th JPEG image a camera sends; ok = cv2 can decode it
Jpeg(s, n, ok) == [kind |-> "jpeg", src |-> s, n |-> n, ok |-> ok]
\* the decoded image
Pixels(s, n) == [kind |-> "px", src |-> s, n |-> n]

\* weights are numerators over Den
Den == TransitionDuration * TransitionDuration * TransitionDuration

VARIABLES
    now,              \* the last reading of time.time() by the mixing thread,
                      \* in seconds since the mixer was constructed
    online,           \* online[s]: camera s is still sending
    seq,              \* seq[s]: number carried by the last frame source s sent
    frame_buffers,    \* StreamProxy.frame_buffers[s]: Queue(maxsize=2), oldest first
    last_frame,       \* last_frame1 / last_frame2 of _mix_streams
    current_stream,   \* StreamMixer.current_stream
    last_transition,  \* StreamMixer.last_transition
    mixer_pc,         \* where the mixing thread is: "loop", "enqueue", "evict";
                      \* "none" before it is started, "exited" after its loop ended
    output_frame,     \* the encoded frame the mixing thread is about to queue
                      \* (None between passes: each pass assigns it before use)
    frame_queue,      \* StreamMixer.frame_queue: Queue(maxsize=10), oldest first
    buf_log,          \* per source buffer: what the last put stored and the gets since
    queue_log,        \* the same for frame_queue
    reader_pc,        \* where the reader thread of stream 1 is in _buffer_stream:
                      \* "verify", "get", "stream", "sleep"
    retry_count,      \* its retry_count
    bytes_array,      \* its bytes_array
    backoff,          \* the time.sleep it is in, in units of retry_delay (0: none)
    conns,            \* connections it has opened
    conn_from,        \* how many bytes it had received when it opened the last one
    received,         \* every byte it has received, in order
    delivered,        \* every frame it has passed to put_nowait, in order
    requests,         \* requests[r]: where request thread r is in the
                      \* before_request hook, and the stream id it is at
    buffers_made,     \* buffers_made[s]: Queue objects created for stream s
    stream_threads,   \* stream_threads[s]: reader threads started for stream s
    mixers_started,   \* mixing threads started (0: app.stream_mixer is None)
    running,          \* StreamMixer.running
    stop_pc           \* where the caller of StreamMixer.stop is: "idle", "join",
                      \* "returned"

mixerVars == <<now, last_frame, current_stream, last_transition, mixer_pc,
               output_frame, frame_queue, queue_log>>
readerVars == <<reader_pc, retry_count, bytes_array, backoff, conns, conn_from,
                received, delivered>>
controlVars == <<requests, buffers_made, stream_threads, mixers_started, running,
                 stop_pc>>
vars == <<now, online, seq, frame_buffers, last_frame, current_stream, last_transition,
          mixer_pc, output_frame, frame_queue, buf_log, queue_log, reader_pc,
          retry_count, bytes_array, backoff, conns, conn_from, received, delivered,
          requests, buffers_made, stream_threads, mixers_started, running, stop_pc>>

\* --------------------------------------------------- bounded queues
\* queue.Queue.get_nowait: the oldest item, or Empty (here None)
QueueHead(q) == IF q = <<>> THEN None ELSE Head(q)
QueueRestPeek(q) == q
QueueRest(q) == IF q = <<>> THEN q ELSE Tail(q)

BufferPutNoEvict(q, f) == Append(q, f)

\* stream_proxy.py 80-89, under buffer_lock: put_nowait; on Full drop the
\* oldest item and put again
BufferPut(q, f) ==
    IF Len(q) < SourceQueueMax THEN Append(q, f) ELSE Append(Tail(q), f)

\* the frame a camera sent first (SpecBuf numbers the frames of source 1, so
\* that this frame is put exactly once)
IsFirst(f) == f.kind = "jpeg" /\ "n" \in DOMAIN f /\ f.n = 1

\* the log of one queue: the frame of the last put, the result of the last
\* get, how many gets ran since that put (counted up to cap + 1), and how
\* many gets in all returned the first frame (counted up to 2).  A log that
\* is Off stays off: only SpecBuf, which settles the buffer contracts, keeps
\* logs.
Off == [kind |-> "off"]
NoLog == [putf |-> None, got |-> None, gets |-> 0, first |-> 0]
LogPut(l, f) ==
    IF l = Off THEN Off
    ELSE [putf |-> f, got |-> None, gets |-> 0, first |-> l.first]
LogGet(l, f, cap) ==
    IF l = Off THEN Off
    ELSE [putf |-> l.putf, got |-> f,
          gets |-> IF l.gets > cap THEN l.gets ELSE l.gets + 1,
          first |-> IF IsFirst(f) /\ l.first < 2 THEN l.first + 1 ELSE l.first]

\* ------------------------------------------------------------ mixer
ImdecodeAny(frame_data) == Pixels(frame_data.src, frame_data.n)

\* cv2.imdecode: None for bytes that are no JPEG image
Imdecode(frame_data) ==
    IF frame_data.ok THEN Pixels(frame_data.src, frame_data.n) ELSE None

\* _get_frame (33-60) on the bytes stream_proxy.get_frame returned
DecodeFrame(frame_data) ==
    IF frame_data = None THEN None ELSE Imdecode(frame_data)

\* cv2.addWeighted(frame1, a, frame2, b, 0); a frame weighted 0 adds nothing
AddWeighted(frame1, a, frame2, b) ==
    [kind |-> "img",
     w1 |-> a, f1 |-> IF a = 0 THEN Black ELSE frame1,
     w2 |-> b, f2 |-> IF b = 0 THEN Black ELSE frame2]

\* a frame shown as it is: the image of source s alone
Plain(s, frame) ==
    IF s = 1 THEN AddWeighted(frame, Den, Black, 0)
    ELSE AddWeighted(Black, 0, frame, Den)

\* cv2.imencode('.jpg', output_frame, quality 85)
Imencode(img) == [kind |-> "jpeg", quality |-> JpegQuality, img |-> img]

\* line 109-110
InTransition(time_since_last) ==
    /\ time_since_last >= TransitionInterval
    /\ time_since_last < TransitionInterval + TransitionDuration

\* lines 115-116: progress as a numerator over TransitionDuration, clamped
Progress(time_since_last) ==
    LET p == time_since_last - TransitionInterval
    IN  IF p < 0 THEN 0
        ELSE IF p > TransitionDuration THEN TransitionDuration ELSE p

\* line 119: t = p*p*(3 - 2p), as a numerator over Den
Easing(p) == p * p * (3 * TransitionDuration - 2 * p)

\* line 122
Alpha(t, stream) == IF stream = 2 THEN t ELSE Den - t

SteadyFrameSwapped(frame1, frame2, stream) ==
    IF stream = 1 THEN Plain(2, frame2) ELSE Plain(1, frame1)

\* line 133
SteadyFrame(frame1, frame2, stream) ==
    IF stream = 2 THEN Plain(2, frame2) ELSE Plain(1, frame1)

\* line 127
TransitionComplete(p) == p >= TransitionDuration

\* lines 107-133: the output image, the stream shown next, the new reference
MixOutput(frame1, frame2, current_time, last) ==
    LET time_since_last == current_time - last
        p == Progress(time_since_last)
        alpha == Alpha(Easing(p), current_stream)
    IN  IF InTransition(time_since_last)
        THEN [img |-> AddWeighted(frame1, Den - alpha, frame2, alpha),
              stream |-> IF TransitionComplete(p)
                         THEN 3 - current_stream ELSE current_stream,
              last |-> IF TransitionComplete(p) THEN current_time ELSE last]
        ELSE [img |-> SteadyFrame(frame1, frame2, current_stream),
              stream |-> current_stream,
              last |-> last]

CachedNever(frame, last) == frame

\* lines 86-94: the frame used for a source, and its cache afterwards
Cached(frame, last) == IF frame # None THEN frame ELSE last

NoValidFramesNever(frame1, frame2) == FALSE

\* line 97: the pass is skipped
NoValidFrames(frame1, frame2) == frame1 = None /\ frame2 = None

\* lines 101-105
OrBlack(frame) == IF frame = None THEN Black ELSE frame

Max(a, b) == IF a >= b THEN a ELSE b

\* dt seconds after the reading `now`: the new reading and the transition
\* reference.  Past MaxTime the origin slides along, and the elapsed time
\* since the reference is kept up to TransitionInterval + TransitionDuration,
\* beyond which lines 108-119 compute the same for every value.
Elapse(dt) ==
    IF now + dt <= MaxTime
    THEN [now |-> now + dt, last |-> last_transition]
    ELSE [now |-> MaxTime,
          last |-> Max(last_transition - (now + dt - MaxTime),
                       MaxTime - (TransitionInterval + TransitionDuration))]

\* one pass of the loop of _mix_streams, lines 69-137, dt seconds after the
\* previous one: both buffers are read, the caches updated, the output image
\* computed and encoded
MixTick(dt) ==
    /\ mixer_pc = "loop"
    /\ running
    /\ now' = Elapse(dt).now
    /\ LET current_time == Elapse(dt).now
           data1 == QueueHead(frame_buffers[1])
           data2 == QueueHead(frame_buffers[2])
           frame1 == Cached(DecodeFrame(data1), last_frame[1])
           frame2 == Cached(DecodeFrame(data2), last_frame[2])
           out == MixOutput(OrBlack(frame1), OrBlack(frame2), current_time,
                            Elapse(dt).last)
       IN  /\ frame_buffers' = [s \in Sources |-> QueueRest(frame_buffers[s])]
           /\ buf_log' = [s \in Sources |->
                  LogGet(buf_log[s], QueueHead(frame_buffers[s]), SourceQueueMax)]
           /\ last_frame' = (1 :> frame1 @@ 2 :> frame2)
           /\ IF NoValidFrames(frame1, frame2)
              THEN /\ last_transition' = Elapse(dt).last
                   /\ UNCHANGED <<current_stream, mixer_pc, output_frame>>
              ELSE /\ current_stream' = out.stream
                   /\ last_transition' = out.last
                   /\ output_frame' = Imencode(out.img)
                   /\ mixer_pc' = "enqueue"
    /\ UNCHANGED <<controlVars, readerVars, online, seq, frame_queue, queue_log>>

\* lines 140-141: frame_queue.full() is false, put_nowait; or it is true
MixEnqueue ==
    /\ mixer_pc = "enqueue"
    /\ IF Len(frame_queue) < FrameQueueMax
       THEN /\ frame_queue' = Append(frame_queue, output_frame)
            /\ queue_log' = LogPut(queue_log, output_frame)
            /\ mixer_pc' = "loop"
            /\ output_frame' = None
       ELSE /\ mixer_pc' = "evict"
            /\ UNCHANGED <<frame_queue, queue_log, output_frame>>
    /\ UNCHANGED <<controlVars, readerVars, now, online, seq, frame_buffers, last_frame, current_stream,
                   last_transition, buf_log>>

\* lines 144-148: get_nowait then put_nowait; Empty is swallowed by the
\* bare except and the frame is not queued
MixEvict ==
    /\ mixer_pc = "evict"
    /\ IF frame_queue = <<>>
       THEN UNCHANGED <<frame_queue, queue_log>>
       ELSE /\ frame_queue' = Append(Tail(frame_queue), output_frame)
            /\ queue_log' = LogPut(queue_log, output_frame)
    /\ mixer_pc' = "loop"
    /\ output_frame' = None
    /\ UNCHANGED <<controlVars, readerVars, now, online, seq, frame_buffers, last_frame, current_stream,
                   last_transition, buf_log>>

\* line 69: `while self.running` finds the flag cleared and the thread ends
MixExit ==
    /\ mixer_pc = "loop"
    /\ ~running
    /\ mixer_pc' = "exited"
    /\ UNCHANGED <<readerVars, now, online, seq, frame_buffers, last_frame,
                   current_stream, last_transition, output_frame, frame_queue,
                   buf_log, queue_log, requests, buffers_made, stream_threads,
                   mixers_started, running, stop_pc>>

StopNoJoin ==
    /\ stop_pc = "idle"
    /\ running
    /\ running' = FALSE
    /\ stop_pc' = "returned"
    /\ UNCHANGED <<readerVars, mixerVars, online, seq, frame_buffers, buf_log,
                   requests, buffers_made, stream_threads, mixers_started>>

\* stop, lines 176-178: the flag is cleared, then the caller waits in join
Stop ==
    /\ stop_pc = "idle"
    /\ running
    /\ running' = FALSE
    /\ stop_pc' = "join"
    /\ UNCHANGED <<readerVars, mixerVars, online, seq, frame_buffers, buf_log,
                   requests, buffers_made, stream_threads, mixers_started>>

\* line 178: join returns once the mixing thread has ended
StopReturn ==
    /\ stop_pc = "join"
    /\ mixer_pc = "exited"
    /\ stop_pc' = "returned"
    /\ UNCHANGED <<readerVars, mixerVars, online, seq, frame_buffers, buf_log,
                   requests, buffers_made, stream_threads, mixers_started, running>>

\* ------------------------------------------------------------ readers
\* the number the next frame of source s carries
NextSeq(s) == IF seq[s] < MaxSeq THEN seq[s] + 1 ELSE MaxSeq

\* _buffer_stream, lines 79-90: a complete frame of source s is queued
Deliver(s) ==
    /\ stream_threads[s] > 0
    /\ online[s]
    /\ seq' = [seq EXCEPT ![s] = NextSeq(s)]
    /\ frame_buffers' = [frame_buffers EXCEPT
                            ![s] = BufferPut(@, Jpeg(s, NextSeq(s), TRUE))]
    /\ buf_log' = [buf_log EXCEPT ![s] = LogPut(@, Jpeg(s, NextSeq(s), TRUE))]
    /\ UNCHANGED <<controlVars, readerVars, now, online, last_frame, current_stream, last_transition,
                   mixer_pc, output_frame, frame_queue, queue_log>>

\* the same for bytes that end with the marker but are no image cv2 can
\* decode (what is left of a frame whose beginning was lost, say)
DeliverCorrupt(s) ==
    /\ stream_threads[s] > 0
    /\ online[s]
    /\ seq' = [seq EXCEPT ![s] = NextSeq(s)]
    /\ frame_buffers' = [frame_buffers EXCEPT
                            ![s] = BufferPut(@, Jpeg(s, NextSeq(s), FALSE))]
    /\ buf_log' = [buf_log EXCEPT ![s] = LogPut(@, Jpeg(s, NextSeq(s), FALSE))]
    /\ UNCHANGED <<controlVars, readerVars, now, online, last_frame, current_stream,
                   last_transition, mixer_pc, output_frame, frame_queue, queue_log>>

\* ------------------------------------------------- the reader, byte by byte
\* the stream whose reader is followed byte by byte
ReaderId == 1

\* bytes_array.endswith(b'\xff\xd9'), line 79
EndsWithEOI(b) == Len(b) >= 2 /\ b[Len(b) - 1] = FF /\ b[Len(b)] = D9

\* lines 52-58 and 94-100: the retry counter after one more failure, and the
\* sleep that follows, in units of retry_delay
AfterFailure(count) ==
    IF count + 1 > MaxRetries
    THEN [retry_count |-> 0, backoff |-> 2]
    ELSE [retry_count |-> count + 1, backoff |-> 1]

\* lines 78-90: a chunk is appended; bytes that now end with the marker are
\* queued as one frame and the accumulator is emptied
AfterChunkKeep(acc, chunk) ==
    LET b == acc \o chunk
    IN  IF EndsWithEOI(b)
        THEN [bytes_array |-> b, frame |-> <<b>>]
        ELSE [bytes_array |-> b, frame |-> <<>>]

AfterChunk(acc, chunk) ==
    LET b == acc \o chunk
    IN  IF EndsWithEOI(b)
        THEN [bytes_array |-> <<>>, frame |-> <<b>>]
        ELSE [bytes_array |-> b, frame |-> <<>>]

\* the sequences over Bytes of length 1..n
RECURSIVE Chunks(_)
Chunks(n) ==
    IF n <= 0 THEN {}
    ELSE {<<b>> : b \in Bytes}
         \cup {<<b>> \o c : b \in Bytes, c \in Chunks(n - 1)}

Min(a, b) == IF a <= b THEN a ELSE b

\* line 51: _verify_stream_url answers False (lines 52-59) or True
ReaderVerify ==
    /\ reader_pc = "verify"
    /\ \/ /\ retry_count' = AfterFailure(retry_count).retry_count
          /\ backoff' = AfterFailure(retry_count).backoff
          /\ reader_pc' = "sleep"
       \/ /\ reader_pc' = "get"
          /\ UNCHANGED <<retry_count, backoff>>
    /\ UNCHANGED <<bytes_array, conns, conn_from, received, delivered>>
    /\ UNCHANGED <<controlVars, mixerVars, online, seq, frame_buffers, buf_log>>

\* lines 61-73: session.get answers 200, answers another status (67-70), or
\* raises a RequestException (92-100)
ReaderConnect ==
    /\ reader_pc = "get"
    /\ \/ /\ conns < MaxConns
          /\ reader_pc' = "stream"
          /\ retry_count' = 0
          /\ conns' = conns + 1
          /\ conn_from' = Len(received)
          /\ UNCHANGED backoff
       \/ /\ reader_pc' = "sleep"
          /\ backoff' = 1
          /\ UNCHANGED <<retry_count, conns, conn_from>>
       \/ /\ reader_pc' = "sleep"
          /\ retry_count' = AfterFailure(retry_count).retry_count
          /\ backoff' = AfterFailure(retry_count).backoff
          /\ UNCHANGED <<conns, conn_from>>
    /\ UNCHANGED <<bytes_array, received, delivered>>
    /\ UNCHANGED <<controlVars, mixerVars, online, seq, frame_buffers, buf_log>>

\* lines 75-90: iter_content yields the next chunk
ReaderChunk ==
    /\ reader_pc = "stream"
    /\ \E chunk \in Chunks(Min(ChunkSize, MaxBytes - Len(received))) :
          LET after == AfterChunk(bytes_array, chunk)
          IN  /\ received' = received \o chunk
              /\ bytes_array' = after.bytes_array
              /\ delivered' = delivered \o after.frame
              /\ IF after.frame = <<>>
                 THEN UNCHANGED <<frame_buffers, buf_log>>
                 ELSE /\ frame_buffers' = [frame_buffers EXCEPT
                            ![ReaderId] = BufferPut(@, after.frame[1])]
                      /\ buf_log' = [buf_log EXCEPT
                            ![ReaderId] = LogPut(@, after.frame[1])]
    /\ UNCHANGED <<reader_pc, retry_count, backoff, conns, conn_from>>
    /\ UNCHANGED <<controlVars, mixerVars, online, seq>>

\* lines 75-77: the response ends (or yields an empty chunk); the while loop
\* starts over at once
ReaderEnd ==
    /\ reader_pc = "stream"
    /\ reader_pc' = "verify"
    /\ UNCHANGED <<retry_count, bytes_array, backoff, conns, conn_from, received, delivered>>
    /\ UNCHANGED <<controlVars, mixerVars, online, seq, frame_buffers, buf_log>>

ReaderDropExit ==
    /\ reader_pc = "stream"
    /\ reader_pc' = "exit"
    /\ UNCHANGED <<retry_count, backoff, bytes_array, conns, conn_from, received, delivered>>
    /\ UNCHANGED <<controlVars, mixerVars, online, seq, frame_buffers, buf_log>>

\* iter_content raises: a RequestException (lines 92-100) or any other
\* exception (lines 101-103)
ReaderDrop ==
    /\ reader_pc = "stream"
    /\ reader_pc' = "sleep"
    /\ \/ /\ retry_count' = AfterFailure(retry_count).retry_count
          /\ backoff' = AfterFailure(retry_count).backoff
       \/ /\ backoff' = 1
          /\ UNCHANGED retry_count
    /\ UNCHANGED <<bytes_array, conns, conn_from, received, delivered>>
    /\ UNCHANGED <<controlVars, mixerVars, online, seq, frame_buffers, buf_log>>

\* time.sleep returns; `continue`, or the end of the except clause, leads
\* back to the top of the while loop
ReaderWake ==
    /\ reader_pc = "sleep"
    /\ reader_pc' = "verify"
    /\ backoff' = 0
    /\ UNCHANGED <<retry_count, bytes_array, conns, conn_from, received, delivered>>
    /\ UNCHANGED <<controlVars, mixerVars, online, seq, frame_buffers, buf_log>>

\* lines 44-47: the thread has just been started by ensure_stream_buffer
ReaderInit ==
    /\ reader_pc = "verify"
    /\ retry_count = 0
    /\ bytes_array = <<>>
    /\ backoff = 0
    /\ conns = 0
    /\ conn_from = 0
    /\ received = <<>>
    /\ delivered = <<>>

\* ------------------------------------------------------------ viewers
\* _generate_from_buffer, lines 173-179: a raw-stream viewer polls get_frame
ViewerGetRaw(s) ==
    /\ frame_buffers' = [frame_buffers EXCEPT ![s] = QueueRest(@)]
    /\ buf_log' = [buf_log EXCEPT
                      ![s] = LogGet(@, QueueHead(frame_buffers[s]), SourceQueueMax)]
    /\ UNCHANGED <<controlVars, readerVars, now, online, seq, last_frame, current_stream, last_transition,
                   mixer_pc, output_frame, frame_queue, queue_log>>

\* generate_mixed_frames / get_latest_frame: a mixed-stream viewer polls
ViewerGetMixed ==
    /\ frame_queue' = QueueRest(frame_queue)
    /\ queue_log' = LogGet(queue_log, QueueHead(frame_queue), FrameQueueMax)
    /\ UNCHANGED <<controlVars, readerVars, now, online, seq, frame_buffers, last_frame, current_stream,
                   last_transition, mixer_pc, output_frame, buf_log>>

\* camera s goes away for good: from here on every connection attempt of
\* its reader fails (lines 92-103) and no frame of s is queued any more
Fail(s) ==
    /\ online[s]
    /\ online' = [online EXCEPT ![s] = FALSE]
    /\ UNCHANGED <<controlVars, readerVars, now, seq, frame_buffers, last_frame, current_stream,
                   last_transition, mixer_pc, output_frame, frame_queue,
                   buf_log, queue_log>>

\* no request is being handled
NoRequest == [pc |-> "idle", i |-> 0]

\* setup_stream_mixer has run once, alone: one buffer and one reader thread
\* per stream, one mixer, started; stop has not been called
SetUp ==
    /\ requests = [r \in Requests |-> NoRequest]
    /\ buffers_made = [s \in Sources |-> 1]
    /\ stream_threads = [s \in Sources |-> 1]
    /\ mixers_started = 1
    /\ running = TRUE
    /\ stop_pc = "idle"

\* ------------------------------------------------------------- setup
\* app.py 51: where a request goes after stream i of the loop over the first
\* two streams
AfterEnsure(i) ==
    IF i + 1 \in Sources THEN [pc |-> "ensure", i |-> i + 1]
    ELSE [pc |-> "start", i |-> 0]

\* app.py 47-51: the before_request hook of a request finds stream_mixer to
\* be None and enters the loop (when it is set the hook changes nothing)
RequestBegin(r) ==
    /\ requests[r].pc = "idle"
    /\ mixers_started = 0
    /\ requests' = [requests EXCEPT ![r] = [pc |-> "ensure", i |-> 1]]
    /\ UNCHANGED <<readerVars, mixerVars, online, seq, frame_buffers, buf_log,
                   buffers_made, stream_threads, mixers_started, running, stop_pc>>

\* ensure_stream_buffer, line 118: `stream_id not in self.frame_buffers`
EnsureCheck(r) ==
    /\ requests[r].pc = "ensure"
    /\ requests' = [requests EXCEPT ![r] =
                       IF buffers_made[@.i] > 0 THEN AfterEnsure(@.i)
                       ELSE [pc |-> "verify", i |-> @.i]]
    /\ UNCHANGED <<readerVars, mixerVars, online, seq, frame_buffers, buf_log,
                   buffers_made, stream_threads, mixers_started, running, stop_pc>>

\* lines 122-124: the HEAD request to the camera returns; when it failed the
\* exception raised ends the hook, and the request (stream_mixer stays None)
EnsureVerify(r) ==
    /\ requests[r].pc = "verify"
    /\ requests' = [requests EXCEPT ![r] =
                       IF online[@.i] THEN [pc |-> "create", i |-> @.i]
                       ELSE NoRequest]
    /\ UNCHANGED <<readerVars, mixerVars, online, seq, frame_buffers, buf_log,
                   buffers_made, stream_threads, mixers_started, running, stop_pc>>

\* lines 126-138: a new Queue takes the stream's place in frame_buffers and a
\* reader thread is started
EnsureCreate(r) ==
    /\ requests[r].pc = "create"
    /\ LET i == requests[r].i
       IN  /\ frame_buffers' = [frame_buffers EXCEPT ![i] = <<>>]
           /\ buffers_made' = [buffers_made EXCEPT ![i] = @ + 1]
           /\ stream_threads' = [stream_threads EXCEPT ![i] = @ + 1]
           /\ requests' = [requests EXCEPT ![r] = AfterEnsure(i)]
    /\ UNCHANGED <<readerVars, mixerVars, online, seq, buf_log, mixers_started,
                   running, stop_pc>>

\* app.py 55-61: a StreamMixer is constructed, takes the place of
\* stream_mixer, and its mixing thread is started
MixerStart(r) ==
    /\ requests[r].pc = "start"
    /\ requests' = [requests EXCEPT ![r] = NoRequest]
    /\ mixers_started' = mixers_started + 1
    /\ running' = TRUE
    /\ mixer_pc' = "loop"
    /\ current_stream' = 1
    /\ last_transition' = now
    /\ last_frame' = [s \in Sources |-> None]
    /\ output_frame' = None
    /\ frame_queue' = <<>>
    /\ UNCHANGED <<readerVars, now, online, seq, frame_buffers, buf_log, queue_log,
                   buffers_made, stream_threads, stop_pc>>

RequestStep(r) ==
    \/ RequestBegin(r)
    \/ EnsureCheck(r)
    \/ EnsureVerify(r)
    \/ EnsureCreate(r)
    \/ MixerStart(r)

\* after setup_stream_mixer: both buffers exist and are empty, the mixer was
\* constructed at time 0 and started.  The cameras have long been running:
\* their frames are not told apart here (SpecBuf numbers them).
Init ==
    /\ now = 0
    /\ online = [s \in Sources |-> TRUE]
    /\ seq = [s \in Sources |-> MaxSeq]
    /\ frame_buffers = [s \in Sources |-> <<>>]
    /\ last_frame = [s \in Sources |-> None]
    /\ current_stream = 1
    /\ last_transition = 0
    /\ mixer_pc = "loop"
    /\ output_frame = None
    /\ frame_queue = <<>>
    /\ buf_log = [s \in Sources |-> Off]
    /\ queue_log = Off
    /\ ReaderInit
    /\ SetUp

Next ==
    \/ \E s \in Sources : Deliver(s)
    \/ \E dt \in 0..MaxStep : MixTick(dt)
    \/ MixEnqueue
    \/ MixEvict
    \/ ViewerGetMixed

Spec == Init /\ [][Next]_vars

\* the buffers alone: the same threads with the clock standing still, every
\* queue operation logged and the frames of source 1 numbered from 1
InitBuf ==
    /\ now = 0
    /\ online = [s \in Sources |-> TRUE]
    /\ seq = [s \in Sources |-> IF s = 1 THEN 0 ELSE MaxSeq]
    /\ frame_buffers = [s \in Sources |-> <<>>]
    /\ last_frame = [s \in Sources |-> None]
    /\ current_stream = 1
    /\ last_transition = 0
    /\ mixer_pc = "loop"
    /\ output_frame = None
    /\ frame_queue = <<>>
    /\ buf_log = [s \in Sources |-> NoLog]
    /\ queue_log = NoLog
    /\ ReaderInit
    /\ SetUp

NextBuf ==
    \/ \E s \in Sources : Deliver(s)
    \/ MixTick(0)
    \/ MixEnqueue
    \/ MixEvict
    \/ \E s \in Sources : ViewerGetRaw(s)
    \/ ViewerGetMixed

SpecBuf == InitBuf /\ [][NextBuf]_vars

\* the reader thread of one stream against its camera, with a raw-stream
\* viewer on its buffer
NextReader ==
    \/ ReaderVerify
    \/ ReaderConnect
    \/ ReaderChunk
    \/ ReaderEnd
    \/ ReaderDrop
    \/ ReaderWake
    \/ ViewerGetRaw(ReaderId)

SpecReader == Init /\ [][NextReader]_vars

\* camera 1 may go away for good while camera 2 keeps sending and the mixing
\* thread keeps running, one pass every MaxStep seconds
NextLive ==
    \/ \E s \in Sources : Deliver(s)
    \/ Fail(1)
    \/ MixTick(MaxStep)
    \/ MixEnqueue
    \/ MixEvict

SpecLive ==
    /\ Init
    /\ [][NextLive]_vars
    /\ WF_vars(Deliver(2))
    /\ WF_vars(MixTick(MaxStep))
    /\ WF_vars(MixEnqueue)
    /\ WF_vars(MixEvict)

\* the reader thread again, now scheduled: a thread that can take a step
\* takes one, time.sleep returns, and the HEAD and GET requests and every
\* read of the response return or raise within their timeout of 5 s
SpecReaderLive ==
    /\ Init
    /\ [][NextReader]_vars
    /\ WF_vars(ReaderVerify)
    /\ WF_vars(ReaderConnect)
    /\ WF_vars(ReaderChunk \/ ReaderEnd \/ ReaderDrop)
    /\ WF_vars(ReaderWake)

\* the server before its first request: nothing is set up, each camera is
\* reachable or not, and requests arrive on every request thread
InitSetup ==
    /\ now = 0
    /\ online \in [Sources -> BOOLEAN]
    /\ seq = [s \in Sources |-> MaxSeq]
    /\ frame_buffers = [s \in Sources |-> <<>>]
    /\ last_frame = [s \in Sources |-> None]
    /\ current_stream = 1
    /\ last_transition = 0
    /\ mixer_pc = "none"
    /\ output_frame = None
    /\ frame_queue = <<>>
    /\ buf_log = [s \in Sources |-> Off]
    /\ queue_log = Off
    /\ ReaderInit
    /\ requests = [r \in Requests |-> NoRequest]
    /\ buffers_made = [s \in Sources |-> 0]
    /\ stream_threads = [s \in Sources |-> 0]
    /\ mixers_started = 0
    /\ running = FALSE
    /\ stop_pc = "idle"

NextSetup ==
    \/ \E r \in Requests : RequestStep(r)
    \/ \E s \in Sources : Deliver(s)
    \/ \E s \in Sources : Fail(s)
    \/ \E s \in Sources : ViewerGetRaw(s)

SpecSetup ==
    /\ InitSetup
    /\ [][NextSetup]_vars
    /\ \A r \in Requests : WF_vars(RequestStep(r))
    /\ \A s \in Sources : WF_vars(Deliver(s))

\* the mixer being stopped: the cameras keep sending, the clock stands still
NextStop ==
    \/ \E s \in Sources : Deliver(s)
    \/ MixTick(0)
    \/ MixEnqueue
    \/ MixEvict
    \/ MixExit
    \/ Stop
    \/ StopReturn
    \/ ViewerGetMixed

SpecStop ==
    /\ Init
    /\ [][NextStop]_vars
    /\ WF_vars(MixTick(0))
    /\ WF_vars(MixEnqueue)
    /\ WF_vars(MixEvict)
    /\ WF_vars(MixExit)
    /\ WF_vars(StopReturn)

\* what the mixer makes of the frames it finds: cameras that send images,
\* send bytes that are no image, or go away; the clock stands still one
\* second into the transition window, where an output shows the frames of
\* both streams, and the frames of source 1 are numbered from 1
InitFrames ==
    /\ now = TransitionInterval + 1
    /\ online = [s \in Sources |-> TRUE]
    /\ seq = [s \in Sources |-> IF s = 1 THEN 0 ELSE MaxSeq]
    /\ frame_buffers = [s \in Sources |-> <<>>]
    /\ last_frame = [s \in Sources |-> None]
    /\ current_stream = 1
    /\ last_transition = 0
    /\ mixer_pc = "loop"
    /\ output_frame = None
    /\ frame_queue = <<>>
    /\ buf_log = [s \in Sources |-> Off]
    /\ queue_log = Off
    /\ ReaderInit
    /\ SetUp

NextFrames ==
    \/ \E s \in Sources : Deliver(s)
    \/ \E s \in Sources : DeliverCorrupt(s)
    \/ \E s \in Sources : Fail(s)
    \/ MixTick(0)
    \/ MixEnqueue
    \/ MixEvict

SpecFrames == InitFrames /\ [][NextFrames]_vars

\* ------------------------------------------------------------ claims
\* the mixing thread holds an output frame it computed at the reading `now`
Pending == mixer_pc # "loop"
SinceLast == now - last_transition
Logs == {buf_log[s] : s \in Sources} \cup {queue_log}
\* both streams have sent a frame the mixer could decode
BothSeen == \A s \in Sources : last_frame[s] # None

\* C1 (as claimed): in a transition away from stream 1 the weight of stream
\* 2's frame is 0 at the reading that starts the transition and positive at
\* every later reading of it, the output starting as stream 1's frame.
C1_BlendStartsAtA ==
    (/\ Pending
     /\ BothSeen
     /\ now < MaxTime
     /\ current_stream = 1
     /\ InTransition(SinceLast))
        => /\ SinceLast = TransitionInterval
                => output_frame.img = Plain(1, last_frame[1])
           /\ SinceLast > TransitionInterval => output_frame.img.w2 > 0

\* C2 (as claimed): from TransitionInterval + TransitionDuration seconds on,
\* and until the next transition, stream 2 is the active one and every
\* output is stream 2's frame as it is.
C2_ShowsBAfterTransition ==
    (/\ Pending
     /\ BothSeen
     /\ now >= TransitionInterval + TransitionDuration
     /\ now < 2 * TransitionInterval)
        => /\ current_stream = 2
           /\ output_frame.img = Plain(2, last_frame[2])

\* C3 (as claimed): a transition begins every TransitionInterval seconds, so
\* an output computed 1 .. TransitionDuration - 1 seconds after a multiple of
\* the interval is a blend in which both frames have weight.
C3_TransitionsRecur ==
    (/\ Pending
     /\ BothSeen
     /\ now < MaxTime
     /\ now >= TransitionInterval
     /\ (now % TransitionInterval) \in 1..(TransitionDuration - 1))
        => /\ output_frame.img.w1 > 0
           /\ output_frame.img.w2 > 0

\* C4: every output computed less than TransitionInterval seconds after the
\* start is the frame used for stream 1 (its new frame, its cached one, or
\* black when it never sent one) with full weight and nothing of stream 2.
C4_ShowsAUntilInterval ==
    (Pending /\ now < TransitionInterval)
        => /\ output_frame = Imencode(Plain(1, OrBlack(last_frame[1])))
           /\ current_stream = 1

C4_Witness ==
    /\ Pending
    /\ now > 0
    /\ now < TransitionInterval
    /\ last_frame[1] # None
    /\ last_frame[2] # None
    /\ output_frame.img.f1 = last_frame[1]

C6_GetReturnsLastPut ==
    \A l \in Logs : (l.putf # None /\ l.gets = 1) => l.got = l.putf

C8_PutNeverDrops ==
    [][(mixer_pc # "loop" /\ mixer_pc' = "loop")
         => /\ frame_queue' # <<>>
            /\ frame_queue'[Len(frame_queue')] = output_frame]_vars

\* the frames the bytes `b` hold: each run of bytes up to and including an
\* end marker, scanning from position i with the current run begun at `start`
RECURSIVE Delimit(_, _, _)
Delimit(b, i, start) ==
    IF i > Len(b) THEN <<>>
    ELSE IF i > start /\ b[i - 1] = FF /\ b[i] = D9
         THEN <<SubSeq(b, start, i)>> \o Delimit(b, i + 1, i + 1)
         ELSE Delimit(b, i + 1, start)

\* C9 (as claimed): whatever the chunks the bytes of a connection arrive in,
\* the frames passed on are the runs of bytes up to and including each end
\* marker, one frame per marker.
C9_OneFramePerMarker ==
    conns = 1 => delivered = Delimit(received, 1, 1)

\* an image that shows stream 2's frame and nothing else
ShowsOnlyB(img) == img.w1 = 0 /\ img.f2 # Black

\* C10 (as claimed): once camera 1 is gone for good, a frame of it being
\* cached, while camera 2 keeps sending, from some time on every output
\* shows only stream 2's frame.
C10_EventuallyOnlyB ==
    (<>(~online[1] /\ last_frame[1] # None))
        => <>[](Pending => ShowsOnlyB(output_frame.img))

\* C11 (as claimed): a pass of the mixing loop that finds both cameras gone
\* and both buffers empty queues nothing: the mixing thread is back at the
\* top of its loop without an output frame.
C11_NoOutputWhileBothFail ==
    [][(/\ mixer_pc = "loop"
        /\ \A s \in Sources : ~online[s] /\ frame_buffers[s] = <<>>)
          => mixer_pc' = "loop"]_vars

\* C12 (as claimed): whatever becomes of camera 1, a camera 2 that stays
\* reachable gets its reader thread started.
C12_OtherReaderStarts ==
    ([]online[2]) => <>(stream_threads[2] > 0)

\* C13 (as claimed): for each stream at most one buffer and one reader thread
\* are ever created, and at most one mixing thread is ever started.
C13_CreatedOnce ==
    /\ \A s \in Sources : buffers_made[s] <= 1 /\ stream_threads[s] <= 1
    /\ mixers_started <= 1

\* C14: the reader thread is always somewhere in its loop, and whenever it
\* sleeps after a failure it comes back to the top of the loop, where the
\* next connection attempt begins.
C14_ReaderNeverStops ==
    /\ [](reader_pc \in {"verify", "get", "stream", "sleep"})
    /\ [](reader_pc = "sleep" => <>(reader_pc = "verify"))

C14_Witness ==
    /\ reader_pc = "get"
    /\ retry_count > 0
    /\ conns > 0
    /\ delivered # <<>>

\* C15 (as claimed): the reader begins a new connection attempt only out of
\* a sleep: no attempt follows the end of the one before without a delay.
C15_BackoffBeforeRetry ==
    [][(reader_pc # "verify" /\ reader_pc' = "verify") => reader_pc = "sleep"]_vars

\* C16: once stop has returned the mixing thread has ended, from then on
\* nothing is put into the output queue (it stays as it is or loses its
\* oldest frame to a viewer), and a stop that waits in join does return.
C16_StopCompletes ==
    /\ [](stop_pc = "returned" => mixer_pc = "exited")
    /\ [][stop_pc = "returned"
            => frame_queue' \in {frame_queue, QueueRest(frame_queue)}]_vars
    /\ [](stop_pc = "join" => <>(stop_pc = "returned"))

C16_Witness ==
    /\ stop_pc = "returned"
    /\ frame_queue # <<>>
    /\ \A s \in Sources : frame_buffers[s] # <<>>

\* C17: an output frame exists, pending or queued, only if some stream had a
\* new or a cached frame in the pass that computed it.
C17_NoOutputWithoutFrame ==
    (Pending \/ frame_queue # <<>>) => \E s \in Sources : last_frame[s] # None

C17_Witness ==
    /\ mixer_pc = "loop"
    /\ seq[1] > 0
    /\ \A s \in Sources : frame_buffers[s] = <<>> /\ last_frame[s] = None
    /\ frame_queue = <<>>

\* the weight of stream s's frame in an image, and the frame that went in
Weight(img, s) == IF s = 1 THEN img.w1 ELSE img.w2
Shown(img, s) == IF s = 1 THEN img.f1 ELSE img.f2

\* C18: the cache of a stream only ever holds frames of that stream; and in a
\* pass that gets no decodable frame of a stream and makes an output, the
\* stream's cache stays as it is and what the output shows of the stream is
\* its cached frame, or black when it has none.
C18_MissUsesOwnCache ==
    /\ [](\A s \in Sources : last_frame[s] # None => last_frame[s].src = s)
    /\ [][(mixer_pc = "loop" /\ mixer_pc' = "enqueue")
            => \A s \in Sources :
                 DecodeFrame(QueueHead(frame_buffers[s])) = None
                   => /\ last_frame'[s] = last_frame[s]
                      /\ Weight(output_frame'.img, s) > 0
                           => Shown(output_frame'.img, s) = OrBlack(last_frame[s])]_vars

C18_Witness ==
    /\ mixer_pc = "enqueue"
    /\ now > 0
    /\ seq[1] = 1
    /\ frame_buffers[1] = <<>>
    /\ frame_queue # <<>>
    /\ last_frame[2] = None
    /\ output_frame.img.w1 > 0
    /\ output_frame.img.f1 = Pixels(1, 1)
    /\ output_frame.img.w2 > 0
    /\ output_frame.img.f2 = Black

\* C19: a pass of the mixing loop that takes a frame from a stream's buffer
\* goes on to the next step of the loop; when the frame cannot be decoded the
\* stream's cache stays as it is and the output, if there is one, shows the
\* cached frame or black; when it can, it becomes the cached frame and an
\* output is made.
C19_DecodeFailureIsAMiss ==
    [][\A s \in Sources :
         (/\ mixer_pc = "loop"
          /\ frame_buffers[s] # <<>>
          /\ frame_buffers'[s] = Tail(frame_buffers[s]))
            => /\ mixer_pc' \in {"loop", "enqueue"}
               /\ ~Head(frame_buffers[s]).ok
                    => /\ last_frame'[s] = last_frame[s]
                       /\ (mixer_pc' = "enqueue" /\ Weight(output_frame'.img, s) > 0)
                            => Shown(output_frame'.img, s) = OrBlack(last_frame[s])
               /\ Head(frame_buffers[s]).ok
                    => /\ last_frame'[s] = Pixels(s, Head(frame_buffers[s]).n)
                       /\ mixer_pc' = "enqueue"]_vars

C19_Witness ==
    /\ mixer_pc = "enqueue"
    /\ seq[1] = MaxSeq
    /\ frame_buffers[1] = <<>>
    /\ last_frame[1] = Pixels(1, 1)
    /\ output_frame.img.f1 = Pixels(1, 1)

\* C20: the first frame of a stream, which is put once, is returned by at
\* most one get of all the consumers of the stream's buffer, and once it was
\* returned it is no longer in the buffer.
C20_ReturnedAtMostOnce ==
    \A s \in Sources :
        /\ buf_log[s].first <= 1
        /\ buf_log[s].first = 1
             => \A i \in 1..Len(frame_buffers[s]) : ~IsFirst(frame_buffers[s][i])

C20_Witness ==
    /\ buf_log[1].first = 1
    /\ buf_log[1].gets > 1
    /\ seq[1] = MaxSeq
    /\ last_frame[1] = Pixels(1, MaxSeq)

\* C21 (as claimed): a frame the reader passes on holds no more bytes than
\* the connection it is on has brought, none of them from a connection
\* before.
C21_FrameFromOneConnection ==
    [][Len(delivered') > Len(delivered)
         => Len(delivered'[Len(delivered')]) <= Len(received') - conn_from]_vars

\* the frames of a sequence, one after the other
RECURSIVE Concat(_)
Concat(frames) ==
    IF frames = <<>> THEN <<>> ELSE Head(frames) \o Concat(Tail(frames))

\* C22: the frames passed on so far, in order, followed by the accumulator
\* are the bytes received so far; every frame passed on ends with the end
\* marker; and the accumulator is empty right after a frame was passed on.
C22_NoByteLostOrDuplicated ==
    /\ [](Concat(delivered) \o bytes_array = received)
    /\ [](\A i \in 1..Len(delivered) : EndsWithEOI(delivered[i]))
    /\ [][Len(delivered') > Len(delivered) => bytes_array' = <<>>]_vars

C22_Witness ==
    /\ conns > 1
    /\ Len(delivered) > 1
    /\ bytes_array # <<>>
    /\ conn_from > 0
    /\ conn_from < Len(received) - Len(bytes_array)

====
